---- MODULE Spec2Model ----
(***************************************************************************)
(* A model of the LCSC order scripts: update.py (ingest the order exports  *)
(* of the orders directory, merge duplicate parts, write combined.csv,     *)
(* orderlist.csv and README.md) and crawl_lcsc.py (run_crawl).             *)
(*                                                                         *)
(* Strings whose characters the code inspects or orders (file names, order *)
(* numbers, dates, part numbers, packages, MPNs) are sequences of          *)
(* one-character strings; money is exact: unit prices count 1/10000 $,     *)
(* extended prices and totals count cents.                                 *)
(***************************************************************************)
EXTENDS Integers, Sequences, FiniteSets, TLC

(* ------------------------------ bounds -------------------------------- *)

\* Files in the orders directory.
MaxFiles == 2
\* Rows over all files of the orders directory.
MaxRows == 3
\* Rows of the part-number column run_crawl reads.
MaxParts == 3
\* Runs of update.py over one history of the orders directory.
MaxRuns == 2

(* ------------------------------ strings ------------------------------- *)

\* The characters used, in code-point order.
Alphabet ==
  << " ", "-", ".",
     "0", "1", "2", "3", "4", "5", "6", "7", "8", "9",
     "A", "B", "C", "D", "E", "F", "G", "H", "I", "J", "K", "L", "M",
     "N", "O", "P", "Q", "R", "S", "T", "U", "V", "W", "X", "Y", "Z",
     "_",
     "a", "b", "c", "d", "e", "f", "g", "h", "i", "j", "k", "l", "m",
     "n", "o", "p", "q", "r", "s", "t", "u", "v", "w", "x", "y", "z" >>

Chars == {Alphabet[i] : i \in 1..Len(Alphabet)}

Ord == [c \in Chars |-> CHOOSE i \in 1..Len(Alphabet) : Alphabet[i] = c]

Digits == <<"0", "1", "2", "3", "4", "5", "6", "7", "8", "9">>

IsDigit(c) == Ord[c] >= Ord["0"] /\ Ord[c] <= Ord["9"]

IsUpper(c) == Ord[c] >= Ord["A"] /\ Ord[c] <= Ord["Z"]

DigitVal(c) == Ord[c] - Ord["0"]

DigitChar(n) == Digits[n + 1]

\* Python's str < str: by code point, a proper prefix first.
RECURSIVE StrLess(_, _)
StrLess(a, b) ==
  IF b = <<>> THEN FALSE
  ELSE IF a = <<>> THEN TRUE
  ELSE IF Head(a) = Head(b) THEN StrLess(Tail(a), Tail(b))
  ELSE Ord[Head(a)] < Ord[Head(b)]

StrMax(a, b) == IF StrLess(a, b) THEN b ELSE a

RECURSIVE Strip(_)
Strip(s) ==
  IF s = <<>> THEN s
  ELSE IF Head(s) = " " THEN Strip(Tail(s))
  ELSE IF s[Len(s)] = " " THEN Strip(SubSeq(s, 1, Len(s) - 1))
  ELSE s

\* The value of the decimal digits of s.
RECURSIVE ParseInt(_)
ParseInt(s) ==
  IF s = <<>> THEN 0
  ELSE 10 * ParseInt(SubSeq(s, 1, Len(s) - 1)) + DigitVal(s[Len(s)])

AllDigits(s) == \A i \in 1..Len(s) : IsDigit(s[i])

TwoDigits(n) == <<DigitChar(n \div 10), DigitChar(n % 10)>>

FourDigits(n) == TwoDigits(n \div 100) \o TwoDigits(n % 100)

(* ------------------------------- dates -------------------------------- *)

Unknown == <<"U", "n", "k", "n", "o", "w", "n">>

\* pandas' NaN in a text cell (read_csv reads an empty cell as NaN) and NaT
\* in a datetime cell; a failed re.match; strptime's ValueError.
NaN == <<>>
NaT == <<>>
None == <<>>
ValueError == <<>>

IsLeap(y) == (y % 4 = 0 /\ y % 100 # 0) \/ y % 400 = 0

DaysIn(y, m) ==
  IF m = 2 THEN (IF IsLeap(y) THEN 29 ELSE 28)
  ELSE IF m \in {4, 6, 9, 11} THEN 30 ELSE 31

ValidDate(y, m, d) == y >= 1 /\ m >= 1 /\ m <= 12 /\ d >= 1 /\ d <= DaysIn(y, m)

\* datetime.strptime(date_str, '%Y%m%d') on eight digits: the date as
\* <<y, m, d>>, or ValueError (the exception) when it is no calendar date.
Strptime(date_str) ==
  LET y == ParseInt(SubSeq(date_str, 1, 4))
      m == ParseInt(SubSeq(date_str, 5, 6))
      d == ParseInt(SubSeq(date_str, 7, 8))
  IN IF ValidDate(y, m, d) THEN <<y, m, d>> ELSE ValueError

\* strftime('%Y-%m-%d') of <<y, m, d>>.
Strftime(dt) == FourDigits(dt[1]) \o <<"-">> \o TwoDigits(dt[2]) \o <<"-">> \o TwoDigits(dt[3])

\* pd.to_datetime(s, errors='coerce') of one cell: YYYY-MM-DD parses to
\* <<y, m, d>> when it is a calendar date; anything else is NaT.
ToDatetime(s) ==
  IF Len(s) = 10 /\ s[5] = "-" /\ s[8] = "-"
     /\ AllDigits(SubSeq(s, 1, 4)) /\ AllDigits(SubSeq(s, 6, 7))
     /\ AllDigits(SubSeq(s, 9, 10))
  THEN LET y == ParseInt(SubSeq(s, 1, 4))
           m == ParseInt(SubSeq(s, 6, 7))
           d == ParseInt(SubSeq(s, 9, 10))
       IN IF ValidDate(y, m, d) THEN <<y, m, d>> ELSE NaT
  ELSE NaT

\* dt.strftime('%Y-%m-%d') of a datetime cell: NaT gives NaN.
DtStrftime(dt) == IF dt = NaT THEN NaN ELSE Strftime(dt)

\* dt1 is an earlier date than dt2 (neither NaT).
DateLess(a, b) ==
  \/ a[1] < b[1]
  \/ a[1] = b[1] /\ a[2] < b[2]
  \/ a[1] = b[1] /\ a[2] = b[2] /\ a[3] < b[3]

(* ----------------------------- file names ----------------------------- *)

\* The length of the run of [A-Z0-9] that starts at position i of s.
RECURSIVE RunLen(_, _)
RunLen(s, i) ==
  IF i <= Len(s) /\ (IsUpper(s[i]) \/ IsDigit(s[i])) THEN 1 + RunLen(s, i + 1) ELSE 0

Prefix == <<"L", "C", "S", "C", "_", "_">>
DotCsv == <<".", "c", "s", "v">>

\* re.match(r'^LCSC__([A-Z0-9]+)_(\d{8})\d+\.csv$', filename): the groups
\* <<group(1), group(2)>>, or None. "_" is not in [A-Z0-9], so group 1 is
\* the whole run after the prefix.
MatchName(filename) ==
  LET n == Len(filename)
      k == RunLen(filename, 7)
  IN IF /\ n >= 6 /\ SubSeq(filename, 1, 6) = Prefix
        /\ k >= 1
        /\ n >= 7 + k + 8 + 1 + 4
        /\ filename[7 + k] = "_"
        /\ AllDigits(SubSeq(filename, 8 + k, n - 4))
        /\ SubSeq(filename, n - 3, n) = DotCsv
     THEN <<SubSeq(filename, 7, 6 + k), SubSeq(filename, 8 + k, 15 + k)>>
     ELSE None

\* A changed ParsePrefixOk: any two capital letters.
ParsePrefixAnyLetters(order_number) == IsUpper(order_number[1]) /\ IsUpper(order_number[2])

\* The order numbers whose leading letters _parse_order_date accepts.
ParsePrefixOk(order_number) == order_number[1] = "W" /\ order_number[2] = "M"

\* _parse_order_date: WMYYMMDDxxxx -> 20YY-MM-DD, else 'Unknown'. The six
\* digits are not checked to be a calendar date.
_parse_order_date(order_number) ==
  IF /\ Len(order_number) >= 8
     /\ ParsePrefixOk(order_number)
     /\ AllDigits(SubSeq(order_number, 3, 8))
  THEN <<"2", "0">> \o SubSeq(order_number, 3, 4) \o <<"-">>
       \o SubSeq(order_number, 5, 6) \o <<"-">> \o SubSeq(order_number, 7, 8)
  ELSE Unknown

(* ------------------------------- money -------------------------------- *)

\* round(x, 2) of an amount x counted in 1/10000 $, as cents: to the nearest
\* cent, an exact half to the even cent. The amounts are exact decimals here;
\* the error of the binary floats the code computes with is left out.
Round2(x) ==
  LET f == x \div 100
      r == x % 100
  IN IF r > 50 \/ (r = 50 /\ f % 2 = 1) THEN f + 1 ELSE f

(* --------------------- update.py: the ingestion loop ------------------ *)

\* pd.read_csv(file): the rows of the file; a file without the
\* 'Ext.Price($)' column gives rows without that cell.
ReadCsv(file) ==
  [i \in 1..Len(file.rows) |->
     [part |-> file.rows[i].part, mfr_pn |-> file.rows[i].mfr_pn,
      desc |-> file.rows[i].desc, pkg |-> file.rows[i].pkg,
      qty |-> file.rows[i].qty, price |-> file.rows[i].price,
      ext |-> file.rows[i].ext, ext_na |-> ~file.has_ext]]

\* df['Last Update'] = value
SetLastUpdate(df, value) ==
  [i \in 1..Len(df) |->
     [part |-> df[i].part, mfr_pn |-> df[i].mfr_pn, desc |-> df[i].desc,
      pkg |-> df[i].pkg, qty |-> df[i].qty, price |-> df[i].price,
      ext |-> df[i].ext, ext_na |-> df[i].ext_na, last_update |-> value]]

RECURSIVE SumExt(_)
SumExt(df) == IF df = <<>> THEN 0 ELSE df[1].ext + SumExt(Tail(df))

RECURSIVE SumQtyPrice(_)
SumQtyPrice(df) ==
  IF df = <<>> THEN 0 ELSE df[1].qty * df[1].price + SumQtyPrice(Tail(df))

\* round(order_total, 2), in cents, of a file whose name matched: the sum of
\* 'Ext.Price($)' when the file has the (numeric) column, else the sum of
\* Quantity * Unit Price($).
OrderTotal(file) ==
  IF file.has_ext THEN SumExt(file.rows) ELSE Round2(SumQtyPrice(file.rows))

\* The order date of a file whose name matched with groups m: the date in
\* the order number, else the file name's date; ValueError when strptime
\* raises.
OrderDate(m) ==
  LET order_date == _parse_order_date(m[1])
      parsed == Strptime(m[2])
  IN IF order_date # Unknown THEN order_date
     ELSE IF parsed = ValueError THEN ValueError
     ELSE Strftime(parsed)

\* The orders_info entry of a file whose name did not match.
UnknownOrder(filename) ==
  [order |-> Unknown, last_update |-> Unknown, source |-> filename, total |-> 0]

\* One pass of the loop body over `file`: the tagged rows and the
\* orders_info entry, or raised = TRUE when strptime raises ValueError.
LoopBody(file) ==
  LET m == MatchName(file.name)
      order_date == OrderDate(m)
  IN IF m # None
     THEN IF order_date = ValueError
          THEN [raised |-> TRUE, df |-> <<>>, info |-> UnknownOrder(file.name)]
          ELSE [raised |-> FALSE,
                df |-> SetLastUpdate(ReadCsv(file), order_date),
                info |-> [order |-> m[1], last_update |-> order_date,
                          source |-> file.name, total |-> OrderTotal(file)]]
     ELSE [raised |-> FALSE,
           df |-> SetLastUpdate(ReadCsv(file), Unknown),
           info |-> UnknownOrder(file.name)]

\* The loop over csv_files from position i on, with the frames and entries
\* gathered so far: it stops at the first file whose pass raises.
RECURSIVE Loop(_, _, _, _, _)
Loop(csv_files, i, dfs, infos, ext_col) ==
  IF i > Len(csv_files)
  THEN [raised |-> FALSE, rows |-> dfs, orders_info |-> infos, ext_col |-> ext_col]
  ELSE LET b == LoopBody(csv_files[i])
       IN IF b.raised
          THEN [raised |-> TRUE, rows |-> dfs, orders_info |-> infos, ext_col |-> ext_col]
          ELSE Loop(csv_files, i + 1, dfs \o b.df, Append(infos, b.info),
                    ext_col \/ csv_files[i].has_ext)

(* ------------------- update.py: merging duplicate parts --------------- *)

SelectRows(df, part) == SelectSeq(df, LAMBDA r : r.part = part)

\* combined_df.duplicated(subset=[part_col], keep=False) marks some row: two
\* rows carry the same part number (two NaN count as the same).
HasDupes(df) == \E i, j \in 1..Len(df) : i # j /\ df[i].part = df[j].part

\* The group keys of groupby(part_col): the distinct part numbers, NaN
\* dropped, in ascending order.
RECURSIVE SortedKeys(_)
SortedKeys(S) ==
  IF S = {} THEN <<>>
  ELSE LET least == CHOOSE k \in S : \A o \in S : ~StrLess(o, k)
       IN <<least>> \o SortedKeys(S \ {least})

\* A changed GroupKeys: one key per row, duplicates kept.
GroupKeysPerRow(df) ==
  LET keyed == SelectSeq(df, LAMBDA r : r.part # NaN)
  IN [i \in 1..Len(keyed) |-> keyed[i].part]

GroupKeys(df) == SortedKeys({df[i].part : i \in 1..Len(df)} \ {NaN})

\* A changed AggQty: agg 'first'.
AggQtyFirst(g) == g[1].qty

\* agg 'sum' of Quantity over the rows of a group.
RECURSIVE AggQty(_)
AggQty(g) == IF g = <<>> THEN 0 ELSE g[1].qty + AggQty(Tail(g))

\* agg 'max' of Unit Price($).
RECURSIVE AggPrice(_)
AggPrice(g) ==
  IF Len(g) = 1 THEN g[1].price
  ELSE IF g[1].price > AggPrice(Tail(g)) THEN g[1].price ELSE AggPrice(Tail(g))

\* agg 'sum' of Ext.Price($): NaN cells are skipped.
RECURSIVE AggExt(_)
AggExt(g) ==
  IF g = <<>> THEN 0
  ELSE (IF g[1].ext_na THEN 0 ELSE g[1].ext) + AggExt(Tail(g))

\* agg 'max' of 'Last Update': the cells are strings, compared as strings.
RECURSIVE AggLastUpdate(_)
AggLastUpdate(g) ==
  IF Len(g) = 1 THEN g[1].last_update
  ELSE StrMax(g[1].last_update, AggLastUpdate(Tail(g)))

\* A changed ExtPrice: the summed extended price is kept.
ExtPriceSummed(qty, price, summed) == summed

\* merged_df[ext_price_col] after line 132-135: recomputed from the merged
\* quantity and unit price in both branches; `summed` is the agg 'sum'.
ExtPrice(qty, price, summed) == Round2(qty * price)

\* The merged row of one group: the aggregates, the recomputed extended
\* price, and the first value of every column that was not aggregated.
MergeGroup(g) ==
  LET qty == AggQty(g)
      price == AggPrice(g)
  IN [part |-> g[1].part, mfr_pn |-> g[1].mfr_pn, mpn |-> g[1].mfr_pn,
      desc |-> g[1].desc, pkg |-> g[1].pkg,
      qty |-> qty, price |-> price,
      ext |-> ExtPrice(qty, price, AggExt(g)),
      last_update |-> AggLastUpdate(g)]

\* merged_df: one row per group key, in key order.
Merge(df) ==
  LET keys == GroupKeys(df)
  IN [i \in 1..Len(keys) |-> MergeGroup(SelectRows(df, keys[i]))]

\* The debug print of line 111 raises KeyError when there are duplicates and
\* no file had an 'Ext.Price($)' column.
MergeRaises(df, ext_col) == HasDupes(df) /\ ~ext_col

(* ------------------------ update.py: the sort ------------------------- *)

\* Row a sorts before row b by ['Package', 'MPN'].
RowLess(a, b) == StrLess(a.pkg, b.pkg) \/ (a.pkg = b.pkg /\ StrLess(a.mpn, b.mpn))

\* r inserted into the sorted t after every row that does not sort after it.
RECURSIVE InsertRow(_, _)
InsertRow(t, r) ==
  IF t = <<>> THEN <<r>>
  ELSE IF RowLess(r, t[1]) THEN <<r>> \o t
  ELSE <<t[1]>> \o InsertRow(Tail(t), r)

\* sort_values(by=['Package', 'MPN']): stable.
RECURSIVE SortValues(_)
SortValues(t) ==
  IF t = <<>> THEN <<>>
  ELSE InsertRow(SortValues(SubSeq(t, 1, Len(t) - 1)), t[Len(t)])

(* --------------------- update.py: the orders table -------------------- *)

\* A changed OrderLess: the dates ascending.
OrderLessOldestFirst(a, b) ==
  \/ a.date # NaT /\ b.date = NaT
  \/ a.date # NaT /\ b.date # NaT /\ DateLess(a.date, b.date)
  \/ a.date = b.date /\ StrLess(a.order, b.order)

\* Entry a sorts before entry b by ['Last Update', 'Order #'],
\* ascending=[False, True], NaT last.
OrderLess(a, b) ==
  \/ a.date # NaT /\ b.date = NaT
  \/ a.date # NaT /\ b.date # NaT /\ DateLess(b.date, a.date)
  \/ a.date = b.date /\ StrLess(a.order, b.order)

RECURSIVE InsertOrder(_, _)
InsertOrder(t, e) ==
  IF t = <<>> THEN <<e>>
  ELSE IF OrderLess(e, t[1]) THEN <<e>> \o t
  ELSE <<t[1]>> \o InsertOrder(Tail(t), e)

RECURSIVE SortOrders(_)
SortOrders(t) ==
  IF t = <<>> THEN <<>>
  ELSE InsertOrder(SortOrders(SubSeq(t, 1, Len(t) - 1)), t[Len(t)])

\* drop_duplicates(subset=['Order #'], keep='first')
RECURSIVE DropDuplicates(_)
DropDuplicates(t) ==
  IF t = <<>> THEN <<>>
  ELSE LET rest == DropDuplicates(SubSeq(t, 1, Len(t) - 1))
           e == t[Len(t)]
       IN IF \E i \in 1..Len(rest) : rest[i].order = e.order THEN rest
          ELSE Append(rest, e)

\* orders_df as written to orderlist.csv: 'Last Update' coerced to a
\* datetime, sorted, deduplicated, the date formatted back.
OrdersTable(infos) ==
  LET coerced == [i \in 1..Len(infos) |->
                    [order |-> infos[i].order, date |-> ToDatetime(infos[i].last_update),
                     source |-> infos[i].source, total |-> infos[i].total]]
      kept == DropDuplicates(SortOrders(coerced))
  IN [i \in 1..Len(kept) |->
        [order |-> kept[i].order, last_update |-> DtStrftime(kept[i].date),
         source |-> kept[i].source, total |-> kept[i].total]]

(* ------------------------ update.py: the report ----------------------- *)

RECURSIVE SumField(_, _)
SumField(t, f) == IF t = <<>> THEN 0 ELSE t[1][f] + SumField(Tail(t), f)

\* README.md: the orders table, the summary and the materials table.
Readme(orders_df, combined_df) ==
  [orders |-> orders_df,
   total_items |-> Len(combined_df),
   total_quantity |-> SumField(combined_df, "qty"),
   total_value |-> SumField(combined_df, "ext"),
   materials |-> combined_df]

(* ------------------------- the inputs drawn --------------------------- *)

\* File names of the orders directory.
NameWM == Prefix \o <<"W", "M", "2", "3", "1", "0", "1", "5", "0", "0", "9", "7">>
          \o <<"_", "2", "0", "2", "5", "0", "8", "2", "1", "1", "0", "3", "1", "4", "4">> \o DotCsv
\* The same order exported again later.
NameWMLater == Prefix \o <<"W", "M", "2", "3", "1", "0", "1", "5", "0", "0", "9", "7">>
          \o <<"_", "2", "0", "2", "6", "0", "1", "0", "2", "0", "9", "0", "0", "0", "0">> \o DotCsv
\* Two letters other than WM before YYMMDD.
NameAB == Prefix \o <<"A", "B", "2", "3", "1", "0", "1", "5", "0", "0", "9", "7">>
          \o <<"_", "2", "0", "2", "5", "0", "8", "2", "1", "1", "0", "3", "1", "4", "4">> \o DotCsv
NameABEarlier == Prefix \o <<"A", "B", "2", "3", "1", "0", "1", "5", "0", "0", "9", "7">>
          \o <<"_", "2", "0", "2", "4", "0", "2", "2", "9", "1", "0", "3", "1", "4", "4">> \o DotCsv
\* WM before six digits that are no calendar date.
NameWMBad == Prefix \o <<"W", "M", "2", "3", "1", "3", "4", "5", "0", "0", "9", "7">>
          \o <<"_", "2", "0", "2", "5", "0", "8", "2", "1", "1", "0", "3", "1", "4", "4">> \o DotCsv
\* An order number without a date and a file-name date that is no calendar date.
NameBadStamp == Prefix \o <<"S", "O", "7">>
          \o <<"_", "2", "0", "2", "5", "1", "3", "4", "5", "1", "0", "3", "1", "4", "4">> \o DotCsv
\* An order number without a date and a good file-name date.
NameSO == Prefix \o <<"S", "O", "7">>
          \o <<"_", "2", "0", "2", "5", "0", "9", "3", "0", "1", "0", "3", "1", "4", "4">> \o DotCsv
\* Names the pattern does not match.
NameNotes == <<"n", "o", "t", "e", "s">> \o DotCsv
NameLower == <<"l", "c", "s", "c", "_", "_">> \o <<"W", "M", "2", "3", "1", "0", "1", "5">>
          \o <<"_", "2", "0", "2", "5", "0", "8", "2", "1", "1">> \o DotCsv
\* Not a .csv file.
NameTxt == <<"n", "o", "t", "e", "s", ".", "t", "x", "t">>

\* The files drawn, each <<name, whether it has an 'Ext.Price($)' column>>.
MergeFiles == {<<NameWM, TRUE>>, <<NameAB, FALSE>>, <<NameNotes, TRUE>>}
OrderFiles == {<<NameWM, TRUE>>, <<NameWMLater, FALSE>>, <<NameAB, TRUE>>,
               <<NameABEarlier, TRUE>>, <<NameWMBad, TRUE>>, <<NameBadStamp, TRUE>>,
               <<NameSO, FALSE>>, <<NameNotes, TRUE>>, <<NameLower, FALSE>>,
               <<NameTxt, TRUE>>}
RunFiles == {<<NameWM, TRUE>>, <<NameNotes, TRUE>>}

C1 == <<"C", "1">>
C2 == <<"C", "2">>

\* Rows of an order export. RowA and RowB are the same part bought twice at
\* different prices; RowC carries an extended price the vendor rounded up
\* (5 x 0.0250 = 0.125 listed as 0.13); RowN has no part number.
RowA == [part |-> C1, mfr_pn |-> <<"R", "C", "0", "4", "0", "2">>, desc |-> "10k 1% 0402",
         pkg |-> <<"0", "4", "0", "2">>, qty |-> 10, price |-> 1000, ext |-> 100]
RowB == [part |-> C1, mfr_pn |-> <<"R", "C", "0", "4", "0", "2", "F", "R">>, desc |-> "10k resistor",
         pkg |-> <<"0", "4", "0", "2">>, qty |-> 5, price |-> 1200, ext |-> 60]
RowC == [part |-> C2, mfr_pn |-> <<"U", "M", "H", "3", "N">>, desc |-> "digital transistor",
         pkg |-> <<"S", "O", "T", "-", "3", "6", "3">>, qty |-> 5, price |-> 250, ext |-> 13]
RowN == [part |-> NaN, mfr_pn |-> <<"X", "1">>, desc |-> "shipping",
         pkg |-> <<"0", "4", "0", "2">>, qty |-> 1, price |-> 5000, ext |-> 50]

MergeRows == {RowA, RowB, RowC, RowN}
OrderRows == {RowA}
RunRows == {RowC}

(* ------------------------------- state -------------------------------- *)

VARIABLES
  orders,         \* the files of the orders directory, in glob's order
  dirty,          \* the orders directory changed since the outputs were written
  pc,             \* update.py: "idle", "done" (ran to the end) or "aborted"
  err,            \* the exception that aborted the run
  orders_info,    \* update.py's orders_info when the run ended
  combined_csv,   \* combined.csv: <<>> (no file) or <<its rows>>
  orderlist_csv,  \* orderlist.csv: <<>> or <<its rows>>
  readme_md,      \* README.md: <<>> or <<its content>>
  runs,           \* how many times update.py was started
  column,         \* run_crawl: the 'LCSC Part Number' cells of its input file
  limit,          \* run_crawl: --limit
  download_images,\* run_crawl: --download-images
  crawl_pc,       \* run_crawl: "off", "start", "loop" or "done"
  parts,          \* run_crawl: the parts to crawl
  idx,            \* run_crawl: the position of the loop in parts
  records,        \* run_crawl: the records gathered
  attempted,      \* the parts fetch_product was called with, in call order
  fetched,        \* the parts whose fetch_product call returned a record
  crawled_csv,    \* crawled_products.csv: <<>> or <<its records>>
  crawled_html,   \* crawled_products.html: <<>> or <<the records it shows>>
  lcsc_dir,       \* concatenate.py: the files of its csv_dir, in glob's order
  concat_pc,      \* concatenate.py: "idle", "done" (ran to the end) or "aborted"
  concat_runs     \* how many times concatenate.py was started

update_vars == <<orders, dirty, pc, err, orders_info, combined_csv, orderlist_csv,
                 readme_md, runs>>

crawl_vars == <<column, limit, download_images, crawl_pc, parts, idx, records,
                attempted, fetched, crawled_csv, crawled_html>>

concat_vars == <<lcsc_dir, concat_pc, concat_runs>>

vars == <<update_vars, crawl_vars, concat_vars>>

outputs == <<combined_csv, orderlist_csv, readme_md>>

InitUpdate ==
  /\ orders = <<>>
  /\ dirty = FALSE
  /\ pc = "idle"
  /\ err = "none"
  /\ orders_info = <<>>
  /\ combined_csv = <<>>
  /\ orderlist_csv = <<>>
  /\ readme_md = <<>>
  /\ runs = 0

\* run_crawl before it loads its parts, given its arguments.
InitCrawl(col, lim, images, at) ==
  /\ column = col
  /\ limit = lim
  /\ download_images = images
  /\ crawl_pc = at
  /\ parts = <<>>
  /\ idx = 1
  /\ records = <<>>
  /\ attempted = <<>>
  /\ fetched = <<>>
  /\ crawled_csv = <<>>
  /\ crawled_html = <<>>

\* concatenate.py's csv_dir before any export is put there.
InitConcat ==
  /\ lcsc_dir = <<>>
  /\ concat_pc = "idle"
  /\ concat_runs = 0

Init == InitUpdate /\ InitCrawl(<<>>, 0, FALSE, "off") /\ InitConcat

(* ---------------------- the orders directory changes ------------------ *)

RECURSIVE RowCount(_)
RowCount(dir) == IF dir = <<>> THEN 0 ELSE Len(dir[1].rows) + RowCount(Tail(dir))

\* A new, empty export appears in the orders directory.
AddFile(name, has_ext) ==
  /\ Len(orders) < MaxFiles
  /\ \A i \in 1..Len(orders) : orders[i].name # name
  /\ orders' = Append(orders, [name |-> name, has_ext |-> has_ext, rows |-> <<>>])
  /\ dirty' = TRUE
  /\ UNCHANGED <<pc, err, orders_info, outputs, runs, crawl_vars, concat_vars>>

\* The newest export gets one more row.
AddRow(row) ==
  /\ orders # <<>>
  /\ RowCount(orders) < MaxRows
  /\ LET n == Len(orders)
         r == IF orders[n].has_ext THEN row ELSE [row EXCEPT !.ext = 0]
     IN orders' = [orders EXCEPT ![n].rows = Append(@, r)]
  /\ dirty' = TRUE
  /\ UNCHANGED <<pc, err, orders_info, outputs, runs, crawl_vars, concat_vars>>

\* An export is deleted.
RemoveFile(i) ==
  /\ i \in 1..Len(orders)
  /\ orders' = SubSeq(orders, 1, i - 1) \o SubSeq(orders, i + 1, Len(orders))
  /\ dirty' = TRUE
  /\ UNCHANGED <<pc, err, orders_info, outputs, runs, crawl_vars, concat_vars>>

(* --------------------------- update.py runs --------------------------- *)

EndsWith(s, suffix) ==
  Len(s) >= Len(suffix) /\ SubSeq(s, Len(s) - Len(suffix) + 1, Len(s)) = suffix

\* glob.glob(os.path.join(csv_dir, '*.csv'))
csv_files == SelectSeq(orders, LAMBDA f : EndsWith(f.name, DotCsv))

\* A changed WriteFile: a file that exists is left as it is.
WriteFileKeep(old, new) == IF old = <<>> THEN <<new>> ELSE old

\* What to_csv / open(..., 'w') leave of a file that held `old`.
WriteFile(old, new) == <<new>>

Abort(e, infos) ==
  /\ pc' = "aborted"
  /\ err' = e
  /\ orders_info' = infos
  /\ runs' = runs + 1
  /\ UNCHANGED <<orders, dirty, outputs, crawl_vars, concat_vars>>

\* What a run that reaches its end computes from the files it globbed:
\* combined_df, orders_df and the report.
Computed(files) ==
  LET res == Loop(files, 1, <<>>, <<>>, FALSE)
      combined_df == SortValues(Merge(res.rows))
      orders_df == OrdersTable(res.orders_info)
  IN [combined |-> combined_df, orderlist |-> orders_df,
      readme |-> Readme(orders_df, combined_df)]

\* One run of update.py, from the glob to the write of README.md. It raises
\* in the loop (strptime), at pd.concat (no file) or at the debug print of
\* the duplicates (KeyError), and writes nothing then.
RunUpdate ==
  LET res == Loop(csv_files, 1, <<>>, <<>>, FALSE)
      out == Computed(csv_files)
  IN IF res.raised THEN Abort("strptime", res.orders_info)
     ELSE IF csv_files = <<>> THEN Abort("concat", res.orders_info)
     ELSE IF MergeRaises(res.rows, res.ext_col) THEN Abort("KeyError", res.orders_info)
     ELSE /\ pc' = "done"
          /\ err' = "none"
          /\ orders_info' = res.orders_info
          /\ combined_csv' = WriteFile(combined_csv, out.combined)
          /\ orderlist_csv' = WriteFile(orderlist_csv, out.orderlist)
          /\ readme_md' = WriteFile(readme_md, out.readme)
          /\ dirty' = FALSE
          /\ runs' = runs + 1
          /\ UNCHANGED <<orders, crawl_vars, concat_vars>>


(* ----------------------- crawl_lcsc.py: run_crawl --------------------- *)

\* Cells of the part-number column: a part, a part with a leading blank, an
\* empty cell (NaN) and a blank cell.
PaddedC2 == <<" ", "C", "2">>
Blank == <<" ">>
Cells == {C1, PaddedC2, NaN, Blank}
Columns == UNION {[1..n -> Cells] : n \in 0..MaxParts}
Limits == {0, 1, 2}

\* _load_parts: the cells that are not NaN, stripped, the empty ones dropped.
RECURSIVE _load_parts(_)
_load_parts(col) ==
  IF col = <<>> THEN <<>>
  ELSE IF col[1] = NaN \/ Strip(col[1]) = <<>> THEN _load_parts(Tail(col))
  ELSE <<Strip(col[1])>> \o _load_parts(Tail(col))

\* parts[:limit] when limit > 0
Capped(ps, lim) ==
  IF lim > 0 THEN SubSeq(ps, 1, IF lim < Len(ps) THEN lim ELSE Len(ps)) ELSE ps

\* run_crawl up to the loop: the parts are loaded and capped.
LoadParts ==
  /\ crawl_pc = "start"
  /\ parts' = Capped(_load_parts(column), limit)
  /\ idx' = 1
  /\ records' = <<>>
  /\ crawl_pc' = "loop"
  /\ UNCHANGED <<column, limit, download_images, attempted, fetched, crawled_csv,
                 crawled_html, update_vars, concat_vars>>

\* The record the loop body appends, or <<>> when the body raises: a record
\* with an image_url gets its image downloaded first when --download-images
\* is set, and a failed download raises like a failed fetch.
BodyRecords(part, fetch_ok, has_image, download_ok) ==
  IF ~fetch_ok THEN <<>>
  ELSE IF download_images /\ has_image
  THEN IF download_ok
       THEN <<[part |-> part, image_url |-> TRUE, image_path |-> TRUE]>>
       ELSE <<>>
  ELSE <<[part |-> part, image_url |-> has_image, image_path |-> FALSE]>>

\* One pass of the loop: fetch_product returns a record (with or without an
\* image_url) or raises; download_image returns or raises.
CrawlPart(fetch_ok, has_image, download_ok) ==
  /\ crawl_pc = "loop"
  /\ idx <= Len(parts)
  /\ attempted' = Append(attempted, parts[idx])
  /\ fetched' = IF fetch_ok THEN Append(fetched, parts[idx]) ELSE fetched
  /\ records' = records \o BodyRecords(parts[idx], fetch_ok, has_image, download_ok)
  /\ idx' = idx + 1
  /\ UNCHANGED <<column, limit, download_images, crawl_pc, parts, crawled_csv,
                 crawled_html, update_vars, concat_vars>>

\* After the loop: the records are written when there are any.
Persist ==
  /\ crawl_pc = "loop"
  /\ idx > Len(parts)
  /\ crawl_pc' = "done"
  /\ crawled_csv' = IF records # <<>> THEN <<records>> ELSE crawled_csv
  /\ crawled_html' = IF records # <<>> THEN <<records>> ELSE crawled_html
  /\ UNCHANGED <<column, limit, download_images, parts, idx, records, attempted,
                 fetched, update_vars, concat_vars>>

(* --------------------------- concatenate.py --------------------------- *)

CombinedName == <<"c", "o", "m", "b", "i", "n", "e", "d">> \o DotCsv

\* The exports put into csv_dir and their rows.
ConcatNames == {NameWM, NameNotes, NameTxt}
ConcatRows == {RowA, RowC}

\* An export appears in csv_dir, anywhere in glob's order.
AddExport(name, k) ==
  /\ Len(lcsc_dir) < MaxFiles
  /\ \A i \in 1..Len(lcsc_dir) : lcsc_dir[i].name # name
  /\ k \in 0..Len(lcsc_dir)
  /\ lcsc_dir' = SubSeq(lcsc_dir, 1, k) \o <<[name |-> name, rows |-> <<>>]>>
                   \o SubSeq(lcsc_dir, k + 1, Len(lcsc_dir))
  /\ UNCHANGED <<concat_pc, concat_runs, update_vars, crawl_vars>>

\* The first export of glob's order gets one more row.
AddExportRow(row) ==
  /\ lcsc_dir # <<>>
  /\ RowCount(lcsc_dir) < MaxRows
  /\ lcsc_dir' = [lcsc_dir EXCEPT ![1].rows = Append(@, row)]
  /\ UNCHANGED <<concat_pc, concat_runs, update_vars, crawl_vars>>

\* glob.glob(os.path.join(csv_dir, '*.csv'))
GlobCsv(dir) == SelectSeq(dir, LAMBDA f : EndsWith(f.name, DotCsv))

\* pd.concat(dfs, ignore_index=True) of the frames read from `files`.
RECURSIVE Concat(_)
Concat(files) == IF files = <<>> THEN <<>> ELSE files[1].rows \o Concat(Tail(files))

\* The directories to_csv(os.path.join(dir, name)) can leave: a file of that
\* name is overwritten where it is; a new file is created, and glob may
\* list it anywhere among the others.
ToCsv(dir, name, rows) ==
  IF \E i \in 1..Len(dir) : dir[i].name = name
  THEN {[i \in 1..Len(dir) |->
           IF dir[i].name = name THEN [name |-> name, rows |-> rows] ELSE dir[i]]}
  ELSE {SubSeq(dir, 1, k) \o <<[name |-> name, rows |-> rows]>>
          \o SubSeq(dir, k + 1, Len(dir)) : k \in 0..Len(dir)}

\* One run of concatenate.py: every *.csv of csv_dir is read, combined.csv
\* of an earlier run among them, and combined.csv is written into csv_dir.
\* pd.concat raises when there is no file, and nothing is written then.
RunConcatenate ==
  LET files == GlobCsv(lcsc_dir)
      combined_df == Concat(files)
  IN /\ concat_runs' = concat_runs + 1
     /\ IF files = <<>>
        THEN concat_pc' = "aborted" /\ UNCHANGED lcsc_dir
        ELSE concat_pc' = "done" /\ lcsc_dir' \in ToCsv(lcsc_dir, CombinedName, combined_df)
     /\ UNCHANGED <<update_vars, crawl_vars>>

(* --------------------------- specifications --------------------------- *)

\* One run of update.py over a directory of exports with duplicated parts.
Next ==
  \/ pc = "idle" /\ \E f \in MergeFiles : AddFile(f[1], f[2])
  \/ pc = "idle" /\ \E r \in MergeRows : AddRow(r)
  \/ pc = "idle" /\ RunUpdate

Spec == Init /\ [][Next]_vars

\* One run of update.py over a directory with every kind of file name.
NextOrders ==
  \/ pc = "idle" /\ \E f \in OrderFiles : AddFile(f[1], f[2])
  \/ pc = "idle" /\ \E r \in OrderRows : AddRow(r)
  \/ pc = "idle" /\ RunUpdate

SpecOrders == Init /\ [][NextOrders]_vars

\* Runs of update.py interleaved with changes of the orders directory.
NextRuns ==
  \/ \E f \in RunFiles : AddFile(f[1], f[2])
  \/ \E r \in RunRows : AddRow(r)
  \/ \E i \in 1..Len(orders) : RemoveFile(i)
  \/ runs < MaxRuns /\ RunUpdate

SpecRuns == Init /\ [][NextRuns]_vars

\* One call of run_crawl over a part-number column.
InitCrawlSpec ==
  /\ InitUpdate
  /\ InitConcat
  /\ \E col \in Columns, lim \in Limits, images \in BOOLEAN :
       InitCrawl(col, lim, images, "start")

NextCrawl ==
  \/ LoadParts
  \/ \E fetch_ok, has_image, download_ok \in BOOLEAN :
       CrawlPart(fetch_ok, has_image, download_ok)
  \/ Persist

SpecCrawl == InitCrawlSpec /\ [][NextCrawl]_vars

\* Runs of concatenate.py in a row over a csv_dir of exports that does not
\* change once the first run started.
NextConcat ==
  \/ concat_runs = 0 /\ \E n \in ConcatNames, k \in 0..MaxFiles : AddExport(n, k)
  \/ concat_runs = 0 /\ \E r \in ConcatRows : AddExportRow(r)
  \/ concat_runs < MaxRuns /\ RunConcatenate

SpecConcat == Init /\ [][NextConcat]_vars

(* ------------------------------ the claims ---------------------------- *)

\* The rows update.py read, each with the file it came from.
RECURSIVE RowsOf(_)
RowsOf(files) ==
  IF files = <<>> THEN <<>>
  ELSE [i \in 1..Len(files[1].rows) |-> [row |-> files[1].rows[i], file |-> files[1]]]
       \o RowsOf(Tail(files))

InputRows == RowsOf(csv_files)

RowsOfPart(p) == SelectSeq(InputRows, LAMBDA x : x.row.part = p)

InputParts == {InputRows[i].row.part : i \in 1..Len(InputRows)} \ {NaN}

RECURSIVE SumQty(_)
SumQty(xs) == IF xs = <<>> THEN 0 ELSE xs[1].row.qty + SumQty(Tail(xs))

RECURSIVE SumInputExt(_)
SumInputExt(xs) == IF xs = <<>> THEN 0 ELSE xs[1].row.ext + SumInputExt(Tail(xs))

MaxPrice(xs) ==
  CHOOSE u \in {xs[i].row.price : i \in 1..Len(xs)} :
    \A i \in 1..Len(xs) : xs[i].row.price <= u

\* The 'Last Update' the ingestion loop gives the rows of a file.
TagOf(file) == LoopBody(file).info.last_update

\* update.py ran to its end over the orders directory as it is now.
Finished == pc = "done" /\ ~dirty

\* The rows of combined.csv and of orderlist.csv.
Materials == combined_csv[1]
OrderList == orderlist_csv[1]

MaterialOf(p) == Materials[CHOOSE i \in 1..Len(Materials) : Materials[i].part = p]

\* C1: combined.csv has at most one row per part number, and every part
\* number of the input that is not null is in exactly one row of it.
C1_OneRowPerPart ==
  Finished =>
    /\ \A i, j \in 1..Len(Materials) : Materials[i].part = Materials[j].part => i = j
    /\ {Materials[i].part : i \in 1..Len(Materials)} = InputParts

\* C1's case: a part in rows of two files, beside a row without a part number.
C1_Witness ==
  /\ Finished
  /\ \E i, j \in 1..Len(InputRows) :
       /\ InputRows[i].row.part = InputRows[j].row.part
       /\ InputRows[i].row.part # NaN
       /\ InputRows[i].file # InputRows[j].file
  /\ \E i \in 1..Len(InputRows) : InputRows[i].row.part = NaN

\* C2: the Quantity of the row of a part that is in more than one input row
\* is the sum of the Quantity of all input rows of that part.
C2_QuantityIsSum ==
  Finished =>
    \A p \in InputParts :
      Len(RowsOfPart(p)) > 1 =>
        \E i \in 1..Len(Materials) :
          Materials[i].part = p /\ Materials[i].qty = SumQty(RowsOfPart(p))

\* C2's case: quantities 10 and 5 of one part, in two files, merged to 15.
C2_Witness ==
  /\ Finished
  /\ \E i, j \in 1..Len(InputRows) :
       /\ InputRows[i].row.part = C1 /\ InputRows[j].row.part = C1
       /\ InputRows[i].file # InputRows[j].file
       /\ InputRows[i].row.qty = 10 /\ InputRows[j].row.qty = 5
  /\ Len(RowsOfPart(C1)) = 2
  /\ MaterialOf(C1).qty = 15

C4_SingleRowIdentity ==
  Finished =>
    \A p \in InputParts :
      Len(RowsOfPart(p)) = 1 =>
        LET x == RowsOfPart(p)[1]
            m == MaterialOf(p)
        IN /\ m.qty = x.row.qty
           /\ m.price = x.row.price
           /\ m.desc = x.row.desc
           /\ m.mfr_pn = x.row.mfr_pn
           /\ m.mpn = x.row.mfr_pn
           /\ m.pkg = x.row.pkg
           /\ m.last_update = TagOf(x.file)
           /\ (x.file.has_ext => m.ext = x.row.ext)

\* a is a more recent date than b; NaT is older than every date.
Newer(a, b) == a # NaT /\ (b = NaT \/ DateLess(b, a))

\* C5: orderlist.csv has exactly one entry per order number of orders_info,
\* and it is an entry of that order number than which none is more recent.
C5_NewestEntryPerOrder ==
  Finished =>
    /\ \A i, j \in 1..Len(OrderList) : OrderList[i].order = OrderList[j].order => i = j
    /\ {OrderList[i].order : i \in 1..Len(OrderList)}
         = {orders_info[j].order : j \in 1..Len(orders_info)}
    /\ \A i \in 1..Len(OrderList) :
         \E j \in 1..Len(orders_info) :
           /\ orders_info[j].order = OrderList[i].order
           /\ orders_info[j].source = OrderList[i].source
           /\ orders_info[j].total = OrderList[i].total
           /\ DtStrftime(ToDatetime(orders_info[j].last_update)) = OrderList[i].last_update
           /\ \A k \in 1..Len(orders_info) :
                orders_info[k].order = orders_info[j].order =>
                  ~Newer(ToDatetime(orders_info[k].last_update),
                         ToDatetime(orders_info[j].last_update))

\* C5's case: two files of one order number with different dates, the older
\* one globbed first.
C5_Witness ==
  /\ Finished
  /\ \E j, k \in 1..Len(orders_info) :
       /\ j < k
       /\ orders_info[j].order = orders_info[k].order
       /\ Newer(ToDatetime(orders_info[k].last_update), ToDatetime(orders_info[j].last_update))
  /\ Len(OrderList) < Len(orders_info)

\* The eight digits after the order number in the name of a matched file.
StampOf(e) == SubSeq(e.source, 8 + Len(e.order), 15 + Len(e.order))

Dashed(y, m, d) == y \o <<"-">> \o m \o <<"-">> \o d

EmbeddedDate(id) == Dashed(<<"2", "0">> \o SubSeq(id, 3, 4), SubSeq(id, 5, 6), SubSeq(id, 7, 8))

StampDate(e) ==
  Dashed(SubSeq(StampOf(e), 1, 4), SubSeq(StampOf(e), 5, 6), SubSeq(StampOf(e), 7, 8))

TwoLettersYYMMDD(id) ==
  Len(id) >= 8 /\ IsUpper(id[1]) /\ IsUpper(id[2]) /\ AllDigits(SubSeq(id, 3, 8))

WMYYMMDD(id) ==
  Len(id) >= 8 /\ id[1] = "W" /\ id[2] = "M" /\ AllDigits(SubSeq(id, 3, 8))

C7_NoNameAbortsTheLoop ==
  pc # "idle" =>
    /\ err # "strptime"
    /\ Len(orders_info) = Len(csv_files)
    /\ \A j \in 1..Len(orders_info) :
         MatchName(csv_files[j].name) = None =>
           orders_info[j].order = Unknown /\ orders_info[j].last_update = Unknown

RecordParts(rs) == [i \in 1..Len(rs) |-> rs[i].part]

\* The records crawled_products.csv holds.
Persisted == IF crawled_csv = <<>> THEN <<>> ELSE crawled_csv[1]

\* C8: every part of the list is attempted once, in order, and the records
\* persisted are those of the parts whose fetch and parse succeeded.
C8_RecordsOfTheFetched ==
  crawl_pc = "done" =>
    /\ attempted = parts
    /\ RecordParts(Persisted) = fetched

\* C9: after a run that reached its end, and until the orders directory
\* changes, combined.csv, orderlist.csv and README.md hold what a run
\* computes from the orders directory alone, whatever the earlier runs wrote.
C9_OutputsFromDirectoryAlone ==
  Finished =>
    /\ combined_csv = <<Computed(csv_files).combined>>
    /\ orderlist_csv = <<Computed(csv_files).orderlist>>
    /\ readme_md = <<Computed(csv_files).readme>>

\* C9's case: a second or later run reached its end.
C9_Witness == Finished /\ runs >= 2 /\ orders # <<>>

\* C10: the Last Update of a part's row is the most recent order date of the
\* part's input rows; rows of a file dated 'Unknown' do not count.
C10_LastUpdateMostRecent ==
  Finished =>
    \A i \in 1..Len(Materials) :
      LET xs == RowsOfPart(Materials[i].part)
          dates == {ToDatetime(TagOf(xs[k].file)) : k \in 1..Len(xs)} \ {NaT}
          got == ToDatetime(Materials[i].last_update)
      IN dates # {} => got \in dates /\ \A d \in dates : ~DateLess(got, d)

\* A file's total in cents: the sum of its 'Ext.Price($)' cells when it has
\* the column, else the sum over its rows of Quantity x Unit Price($),
\* rounded to 2 decimals.
FileTotal(file) ==
  IF file.has_ext THEN SumInputExt(RowsOf(<<file>>))
  ELSE Round2(SumField([i \in 1..Len(file.rows) |->
                          [amount |-> file.rows[i].qty * file.rows[i].price]],
                       "amount"))

\* C11: a run that reached its end has one orders_info entry per file
\* globbed, in order, and the entry's total is that file's total, whether
\* or not the file's name matched the pattern.
C11_EntryTotalPerFile ==
  pc = "done" =>
    /\ Len(orders_info) = Len(csv_files)
    /\ \A j \in 1..Len(orders_info) :
         /\ orders_info[j].source = csv_files[j].name
         /\ orders_info[j].total = FileTotal(csv_files[j])

\* The order exports of csv_dir: its *.csv files other than combined.csv.
Exports == SelectSeq(GlobCsv(lcsc_dir), LAMBDA f : f.name # CombinedName)

\* The rows of combined.csv in csv_dir.
CombinedRows ==
  lcsc_dir[CHOOSE i \in 1..Len(lcsc_dir) : lcsc_dir[i].name = CombinedName].rows

\* C12: after any number of runs of concatenate.py in a row over the same
\* exports, the rows of combined.csv are the concatenation of the exports'
\* rows: no run reads what an earlier run wrote.
C12_CombinedIsTheExports ==
  concat_pc = "done" => CombinedRows = Concat(Exports)

====
